---- MODULE Spec2Model ----
(***************************************************************************)
(* Events handler service (src/events/handler.py): the ingest pipeline     *)
(* POST /events (validate, conditional put into the events table, publish  *)
(* to the queue) and the range query GET /devices/{device_id}/events.      *)
(*                                                                         *)
(* Strings that the code formats, strips, parses or compares are sequences *)
(* of one-character strings, so that f"TS#{ts}", str.strip(), int() and    *)
(* the table's byte-wise ordering of sort keys are computed, not assumed.  *)
(***************************************************************************)
EXTENDS Integers, Sequences, FiniteSets, TLC

VARIABLES store, queue, procs, clock, last

vars == <<store, queue, procs, clock, last>>

(***************************************************************************)
(* Bounds of the model.                                                    *)
(***************************************************************************)
\* Number of concurrent ingest requests (each gets its own worker).
NumRequests == 2

\* Number of requests handled one after the other.
MaxSeqRequests == 3

(***************************************************************************)
(* Program constants.                                                      *)
(***************************************************************************)
DeviceIdMaxLength == 128
TypeMaxLength == 64
DefaultLimit == 100

(***************************************************************************)
(* Characters and strings.                                                 *)
(***************************************************************************)
\* The characters the model's strings use, in increasing code point order
\* (the order in which the table compares string sort keys).
Alphabet ==
    <<" ", "#", "-", "0", "1", "2", "3", "4", "5", "6", "7", "8", "9", ":",
      "C", "D", "E", "I", "S", "T", "V", "d", "t", "x">>

Ord(c) == CHOOSE i \in 1..Len(Alphabet) : Alphabet[i] = c

Digits == <<"0", "1", "2", "3", "4", "5", "6", "7", "8", "9">>

IsDigit(c) == \E i \in 1..10 : Digits[i] = c

DigitVal(c) == (CHOOSE i \in 1..10 : Digits[i] = c) - 1

IsSpace(c) == c = " "

\* Lexicographic comparison of two strings, character by character; a proper
\* prefix sorts first.
RECURSIVE StrLess(_, _)
StrLess(a, b) ==
    IF b = <<>> THEN FALSE
    ELSE IF a = <<>> THEN TRUE
    ELSE IF Ord(Head(a)) # Ord(Head(b)) THEN Ord(Head(a)) < Ord(Head(b))
    ELSE StrLess(Tail(a), Tail(b))

StrLeq(a, b) == a = b \/ StrLess(a, b)

\* The decimal digits of a natural number.
RECURSIVE NatStr(_)
NatStr(n) ==
    IF n < 10 THEN <<Digits[n + 1]>>
    ELSE NatStr(n \div 10) \o <<Digits[(n % 10) + 1]>>

\* Python's str(int), as used by an f-string.
IntStr(n) == IF n < 0 THEN <<"-">> \o NatStr(-n) ELSE NatStr(n)

\* str.strip(): leading and trailing whitespace removed.
RECURSIVE LStrip(_)
LStrip(s) ==
    IF s # <<>> /\ IsSpace(Head(s)) THEN LStrip(Tail(s)) ELSE s

RECURSIVE RStrip(_)
RStrip(s) ==
    IF s # <<>> /\ IsSpace(s[Len(s)]) THEN RStrip(SubSeq(s, 1, Len(s) - 1)) ELSE s

Strip(s) == RStrip(LStrip(s))

\* Python's int(str): an optional sign followed by digits, surrounding
\* whitespace allowed; anything else raises ValueError.
IsIntLiteral(s) ==
    LET t == Strip(s)
        u == IF t # <<>> /\ Head(t) = "-" THEN Tail(t) ELSE t
    IN  u # <<>> /\ \A i \in 1..Len(u) : IsDigit(u[i])

RECURSIVE DigitsVal(_)
DigitsVal(u) ==
    IF u = <<>> THEN 0
    ELSE 10 * DigitsVal(SubSeq(u, 1, Len(u) - 1)) + DigitVal(u[Len(u)])

ParseInt(s) ==
    LET t == Strip(s)
    IN  IF Head(t) = "-" THEN 0 - DigitsVal(Tail(t)) ELSE DigitsVal(t)

(***************************************************************************)
(* Requests.  A JSON object body is a function from the keys it has to     *)
(* their values; a missing key is a key outside its DOMAIN.                *)
(***************************************************************************)
D1 == <<"d", "1">>
D2 == <<"d", "2">>
\* A device id with leading whitespace: not blank, so validation accepts it.
DSp == <<" ", "d", "1">>
TypeT == <<"t">>
TypeX == <<"x">>

DeviceIds == {D1, D2}

\* Timestamps the valid bodies use: 2 and 10 differ in their number of digits.
ValidTs == {1, 2, 10}

Obj(d, ty, v, t) == [device_id |-> d, type |-> ty, value |-> v, ts |-> t]

ValidData ==
    {Obj(d, TypeT, 21, t) : d \in DeviceIds, t \in ValidTs}
        \cup {[device_id |-> D1, type |-> TypeX, value |-> 22, ts |-> 1, raw |-> "r"]}
        \cup {Obj(DSp, TypeT, 21, 1)}

InvalidData ==
    { [type |-> TypeT, value |-> 21, ts |-> 1],         \* device_id missing
      Obj(<<>>, TypeT, 21, 1),                          \* device_id empty
      Obj(<<" ">>, TypeT, 21, 1),                       \* device_id blank
      [device_id |-> D1, value |-> 21, ts |-> 1],       \* type missing
      [device_id |-> D1, type |-> TypeT, ts |-> 1],     \* value missing
      [device_id |-> D1, type |-> TypeT, value |-> 21], \* ts missing
      Obj(D1, TypeT, 21, 0),                            \* ts zero
      Obj(D1, TypeT, 21, -1),                           \* ts negative
      [type |-> TypeT, value |-> 21, ts |-> -1],        \* device_id missing, ts negative
      [ts |-> 0] }                                      \* every field breaks a rule

\* The event handed to ingest_event: no body (or a body that is not a
\* string), a string that is not JSON, JSON that is not an object, or an
\* object.
IngestEvents ==
    {[body |-> "absent"], [body |-> "notjson"], [body |-> "array"]}
        \cup {[body |-> "object", data |-> d] : d \in ValidData \cup InvalidData}

\* Faults of the table and of the queue: none, or a ClientError.
Faults == {"none", "ClientError"}

(***************************************************************************)
(* EventPayload: the schema and its validators.                            *)
(***************************************************************************)
\* field_validator("device_id", "type"): blank after strip() is an error.
not_empty(v) == Strip(v) # <<>>

\* Variant: zero passes.
ts_not_negative(v) == v >= 0

\* field_validator("ts")
ts_must_be_positive(v) == v > 0

StrFieldOk(data, f, maxLen) ==
    /\ f \in DOMAIN data
    /\ Len(data[f]) >= 1
    /\ Len(data[f]) <= maxLen
    /\ not_empty(data[f])

\* Variant: validation stops at the first field that breaks a rule.
EventPayloadFirstError(data) ==
    IF ~StrFieldOk(data, "device_id", DeviceIdMaxLength) THEN {"device_id"}
    ELSE IF ~StrFieldOk(data, "type", TypeMaxLength) THEN {"type"}
    ELSE IF "value" \notin DOMAIN data THEN {"value"}
    ELSE IF ~("ts" \in DOMAIN data /\ ts_must_be_positive(data.ts)) THEN {"ts"}
    ELSE {}

\* The fields of a body that break a rule; the model validates every field
\* and collects the errors of all of them.
EventPayloadErrors(data) ==
    {f \in {"device_id"} : ~StrFieldOk(data, f, DeviceIdMaxLength)}
        \cup {f \in {"type"} : ~StrFieldOk(data, f, TypeMaxLength)}
        \cup {f \in {"value"} : f \notin DOMAIN data}
        \cup {f \in {"ts"} : ~(f \in DOMAIN data /\ ts_must_be_positive(data[f]))}

\* _parse_body: the payload, or the exception raised.
ParseBody(event) ==
    IF event.body = "absent" THEN [kind |-> "ValueError"]
    ELSE IF event.body = "notjson" THEN [kind |-> "JSONDecodeError"]
    ELSE IF event.body = "array" THEN [kind |-> "TypeError"]
    ELSE IF EventPayloadErrors(event.data) # {}
         THEN [kind |-> "ValidationError", errors |-> EventPayloadErrors(event.data)]
    ELSE [kind |-> "ok", payload |-> event.data]

(***************************************************************************)
(* Responses.  A request id is a positive number; 0 stands for "no request *)
(* id" (None, or the empty header value).                                  *)
(***************************************************************************)
NoRid == 0

\* _response: request_id is written into the body only when one is passed.
Response(status, body, request_id) ==
    [statusCode |-> status,
     headers |-> [XRequestId |-> request_id],
     body |-> IF request_id # NoRid
              THEN [k \in DOMAIN body \cup {"request_id"} |->
                        IF k = "request_id" THEN request_id ELSE body[k]]
              ELSE body]

\* An exception that leaves the handler.
Raised(exc) == [exception |-> exc]

IsResponse(r) == "statusCode" \in DOMAIN r

(***************************************************************************)
(* Keys, items and messages.                                               *)
(***************************************************************************)
DevicePrefix == <<"D", "E", "V", "I", "C", "E", "#">>
TsPrefix == <<"T", "S", "#">>

\* pk = f"DEVICE#{device_id}"
PK(device_id) == DevicePrefix \o device_id

\* sk = f"TS#{ts}"
SK(ts) == TsPrefix \o IntStr(ts)

\* The item put into the table.
Item(payload, request_id, now) ==
    LET base == [PK |-> PK(payload.device_id),
                 SK |-> SK(payload.ts),
                 device_id |-> payload.device_id,
                 type |-> payload.type,
                 value |-> payload.value,
                 ts |-> payload.ts,
                 ingested_at |-> now,
                 request_id |-> request_id]
    IN  IF "raw" \in DOMAIN payload
        THEN [k \in DOMAIN base \cup {"raw"} |->
                  IF k = "raw" THEN payload.raw ELSE base[k]]
        ELSE base

\* Variant: the event_id is built from the request, not from the sort key.
SqsMsgEventIdOfRequest(payload, request_id) ==
    [device_id |-> payload.device_id,
     type |-> payload.type,
     value |-> payload.value,
     ts |-> payload.ts,
     request_id |-> request_id,
     event_id |-> PK(payload.device_id) \o <<":">> \o NatStr(request_id)]

\* The message published for a stored event.
SqsMsg(payload, request_id) ==
    [device_id |-> payload.device_id,
     type |-> payload.type,
     value |-> payload.value,
     ts |-> payload.ts,
     request_id |-> request_id,
     event_id |-> PK(payload.device_id) \o <<":">> \o SK(payload.ts)]

\* The table is a set of items; its primary key is (PK, SK).
KeyOf(item) == <<item.PK, item.SK>>

\* Variant: the condition compares whole items, not keys.
HasKeyWholeItem(st, item) == \E i \in st : i = item

HasKey(st, item) == \E i \in st : KeyOf(i) = KeyOf(item)

\* Variant: put_item without its ConditionExpression.
PutItemResultUnconditional(st, item, fault) ==
    IF fault # "none" THEN "ClientError" ELSE "ok"

\* put_item with ConditionExpression attribute_not_exists(SK): the outcome
\* on the table st.
PutItemResult(st, item, fault) ==
    IF fault # "none" THEN "ClientError"
    ELSE IF HasKey(st, item) THEN "ConditionalCheckFailedException"
    ELSE "ok"

\* Variant: the write is not durable when the call returns.
PutItemStoreLost(st, item, result) == st

\* Variant: the item is written although the condition failed.
PutItemStoreOverwrites(st, item, result) ==
    IF result # "ClientError"
    THEN {i \in st : KeyOf(i) # KeyOf(item)} \cup {item}
    ELSE st

\* The table after a put_item with that outcome.
PutItemStore(st, item, result) ==
    IF result = "ok"
    THEN {i \in st : KeyOf(i) # KeyOf(item)} \cup {item}
    ELSE st

(***************************************************************************)
(* ingest_event: its responses.                                            *)
(***************************************************************************)
\* The validation stage failed: the 400 responses of the two except
\* clauses, and the exceptions neither clause catches.
RejectedResponse(parsed, request_id) ==
    IF parsed.kind = "JSONDecodeError"
    THEN Response(400, [error |-> "Invalid JSON body", detail |-> {"body"}], request_id)
    ELSE IF parsed.kind = "ValidationError"
    THEN Response(400, [error |-> "Validation failed", detail |-> parsed.errors], request_id)
    ELSE Raised(parsed.kind)

DuplicateResponse(request_id) ==
    Response(409, [message |-> "Duplicate event", request_id |-> request_id], NoRid)

StoreFailureResponse(request_id) ==
    Response(500, [error |-> "Failed to store event"], request_id)

PublishFailureResponse(request_id) ==
    Response(500, [message |-> "SQS Enqueue failed", error |-> "ClientError"], NoRid)

EnqueuedResponse(payload, request_id) ==
    Response(201,
             [message |-> "Event ingested",
              device_id |-> payload.device_id,
              ts |-> payload.ts,
              request_id |-> request_id],
             NoRid)

(***************************************************************************)
(* State.                                                                  *)
(*   store  the events table, a set of items                               *)
(*   queue  the messages sent to the queue, in order                       *)
(*   procs  the ingest_event invocations, one per worker                   *)
(*   clock  the number of requests received so far: time(), and the        *)
(*          source of request ids                                          *)
(*   last   the last request handled from start to end in one step, with   *)
(*          its response                                                   *)
(***************************************************************************)
Workers == 1..NumRequests

Init ==
    /\ store = {}
    /\ queue = <<>>
    /\ procs = [p \in Workers |-> [pc |-> "idle"]]
    /\ clock = 0
    /\ last = [op |-> "none"]

\* The workers whose request was answered.
Done == {p \in Workers : procs[p].pc = "done"}

(***************************************************************************)
(* ingest_event, step by step: the steps of concurrent invocations         *)
(* interleave at the calls to the table and to the queue.                  *)
(***************************************************************************)
\* Lines 109-145: request id, parse and validate, build the item.
Receive(p, event) ==
    /\ procs[p].pc = "idle"
    /\ p = clock + 1
    /\ LET parsed == ParseBody(event)
           base == [event |-> event, rid |-> p, after |-> Done, sends |-> 0]
       IN  procs' = [procs EXCEPT ![p] =
               IF parsed.kind = "ok"
               THEN [pc |-> "validated",
                     payload |-> parsed.payload,
                     item |-> Item(parsed.payload, p, clock + 1)] @@ base
               ELSE [pc |-> "done",
                     outcome |-> "Rejected",
                     resp |-> RejectedResponse(parsed, p)] @@ base]
    /\ clock' = clock + 1
    /\ UNCHANGED <<store, queue, last>>

\* Variant: a duplicate does not return, it goes on to publish.
PutItemDuplicateGoesOn(p, fault) ==
    /\ procs[p].pc = "validated"
    /\ LET me == procs[p]
           result == PutItemResult(store, me.item, fault)
       IN  /\ store' = PutItemStore(store, me.item, result)
           /\ procs' = [procs EXCEPT ![p] =
                  IF result = "ok"
                  THEN [pc |-> "stored", insert |-> "Accepted",
                        storeFault |-> fault] @@ me
                  ELSE IF result = "ConditionalCheckFailedException"
                  THEN [pc |-> "stored", insert |-> "Duplicate",
                        storeFault |-> fault] @@ me
                  ELSE [pc |-> "done", insert |-> "StoreFailure",
                        storeFault |-> fault,
                        outcome |-> "StoreFailure",
                        resp |-> StoreFailureResponse(me.rid)] @@ me]
    /\ UNCHANGED <<queue, clock, last>>

\* Lines 147-170: the conditional put.
PutItem(p, fault) ==
    /\ procs[p].pc = "validated"
    /\ LET me == procs[p]
           result == PutItemResult(store, me.item, fault)
       IN  /\ store' = PutItemStore(store, me.item, result)
           /\ procs' = [procs EXCEPT ![p] =
                  IF result = "ok"
                  THEN [pc |-> "stored", insert |-> "Accepted",
                        storeFault |-> fault] @@ me
                  ELSE IF result = "ConditionalCheckFailedException"
                  THEN [pc |-> "done", insert |-> "Duplicate",
                        storeFault |-> fault,
                        outcome |-> "Duplicate",
                        resp |-> DuplicateResponse(me.rid)] @@ me
                  ELSE [pc |-> "done", insert |-> "StoreFailure",
                        storeFault |-> fault,
                        outcome |-> "StoreFailure",
                        resp |-> StoreFailureResponse(me.rid)] @@ me]
    /\ UNCHANGED <<queue, clock, last>>

\* Variant: a failed send_message is tried again after the message was
\* delivered.
SendMessageRedelivers(p, fault) ==
    /\ procs[p].pc = "stored"
    /\ LET me == procs[p]
           sent == [sends |-> me.sends + 1, queueFault |-> fault]
           msg == SqsMsg(me.payload, me.rid)
       IN  /\ queue' = IF fault = "none" THEN Append(queue, msg)
                       ELSE Append(Append(queue, msg), msg)
           /\ procs' = [procs EXCEPT ![p] =
                  [pc |-> "done", outcome |-> "Enqueued",
                   resp |-> EnqueuedResponse(me.payload, me.rid)] @@ sent @@ me]
    /\ UNCHANGED <<store, clock, last>>

\* Variant: the message reaches the queue although send_message failed.
SendMessageDeliversOnFailure(p, fault) ==
    /\ procs[p].pc = "stored"
    /\ LET me == procs[p]
           sent == [sends |-> me.sends + 1, queueFault |-> fault]
       IN  /\ queue' = Append(queue, SqsMsg(me.payload, me.rid))
           /\ procs' = [procs EXCEPT ![p] =
                  IF fault = "none"
                  THEN [pc |-> "done", outcome |-> "Enqueued",
                        resp |-> EnqueuedResponse(me.payload, me.rid)] @@ sent @@ me
                  ELSE [pc |-> "done", outcome |-> "PublishFailure",
                        resp |-> PublishFailureResponse(me.rid)] @@ sent @@ me]
    /\ UNCHANGED <<store, clock, last>>

\* Lines 172-203: publish the message and answer.
SendMessage(p, fault) ==
    /\ procs[p].pc = "stored"
    /\ LET me == procs[p]
           sent == [sends |-> me.sends + 1, queueFault |-> fault]
       IN  IF fault = "none"
           THEN /\ queue' = Append(queue, SqsMsg(me.payload, me.rid))
                /\ procs' = [procs EXCEPT ![p] =
                       [pc |-> "done", outcome |-> "Enqueued",
                        resp |-> EnqueuedResponse(me.payload, me.rid)] @@ sent @@ me]
           ELSE /\ queue' = queue
                /\ procs' = [procs EXCEPT ![p] =
                       [pc |-> "done", outcome |-> "PublishFailure",
                        resp |-> PublishFailureResponse(me.rid)] @@ sent @@ me]
    /\ UNCHANGED <<store, clock, last>>

Next ==
    \/ \E p \in Workers, event \in IngestEvents : Receive(p, event)
    \/ \E p \in Workers, fault \in Faults : PutItem(p, fault)
    \/ \E p \in Workers, fault \in Faults : SendMessage(p, fault)

Spec == Init /\ [][Next]_vars

(***************************************************************************)
(* get_device_events.                                                      *)
(***************************************************************************)
\* A dict of strings with no key.
NoParams == [k \in {} |-> <<>>]

PathInputs == {NoParams} \cup {[device_id |-> d] : d \in {<<" ">>, D1, D2, DSp}}

FromInputs == {<<"0">>, <<"2">>}
ToInputs == {<<"1", "0">>}
LimitInputs == {<<"0">>, <<"1">>, <<"2">>, <<"x">>}

\* The query string: any subset of from_ts, to_ts and limit.
QueryInputs ==
    {[k \in ks |-> IF k = "from_ts" THEN f ELSE IF k = "to_ts" THEN t ELSE l] :
        ks \in SUBSET {"from_ts", "to_ts", "limit"},
        f \in FromInputs, t \in ToInputs, l \in LimitInputs}

QueryEvents ==
    {[pathParameters |-> pp, queryStringParameters |-> qp] :
        pp \in PathInputs, qp \in QueryInputs}

\* dict.get(k) is truthy: the key is there and its string is not empty.
Truthy(d, k) == k \in DOMAIN d /\ d[k] # <<>>

\* The condition on the sort key: between, gte, lte on strings, or none.
SortKeyCondition(qp, sk) ==
    IF Truthy(qp, "from_ts") /\ Truthy(qp, "to_ts")
    THEN StrLeq(TsPrefix \o qp.from_ts, sk) /\ StrLeq(sk, TsPrefix \o qp.to_ts)
    ELSE IF Truthy(qp, "from_ts") THEN StrLeq(TsPrefix \o qp.from_ts, sk)
    ELSE IF Truthy(qp, "to_ts") THEN StrLeq(sk, TsPrefix \o qp.to_ts)
    ELSE TRUE

\* The items of a set, greatest sort key first (ScanIndexForward=False).
RECURSIVE SortDescending(_)
SortDescending(items) ==
    IF items = {} THEN <<>>
    ELSE LET top == CHOOSE i \in items : \A j \in items : StrLeq(j.SK, i.SK)
         IN  <<top>> \o SortDescending(items \ {top})

\* Variant: the key condition has no partition key.
TableQueryAllPartitions(st, pk, qp, limit) ==
    LET found == SortDescending({i \in st : SortKeyCondition(qp, i.SK)})
        page == SubSeq(found, 1, IF Len(found) < limit THEN Len(found) ELSE limit)
    IN  [Items |-> page,
         LastEvaluatedKey |->
             IF Len(found) >= limit THEN KeyOf(page[Len(page)]) ELSE <<>>]

\* Table.query: the items of the partition that satisfy the condition, in
\* descending sort key order, cut after Limit items; LastEvaluatedKey is
\* the key of the last item read when the limit stopped the read.
TableQuery(st, pk, qp, limit) ==
    LET found == SortDescending({i \in st : i.PK = pk /\ SortKeyCondition(qp, i.SK)})
        page == SubSeq(found, 1, IF Len(found) < limit THEN Len(found) ELSE limit)
    IN  [Items |-> page,
         LastEvaluatedKey |->
             IF Len(found) >= limit THEN KeyOf(page[Len(page)]) ELSE <<>>]

\* The conversion of a row for JSON: value to float, ts and ingested_at to
\* int; the model's numbers are integers already.
Row(item) == item

\* The handler from start to end: the response (or the exception), and
\* whether the table was read.  A Limit below 1 never reads the table: the
\* client library refuses the call (ParamValidationError, which is no
\* ClientError) or the service does (a ClientError); the model takes the
\* second when the call faults and the first when it does not.
GetDeviceEventsRun(event, request_id, st, fault) ==
    LET device_id == IF "device_id" \in DOMAIN event.pathParameters
                     THEN Strip(event.pathParameters.device_id)
                     ELSE <<>>
        qp == event.queryStringParameters
    IN  IF device_id = <<>>
        THEN [queried |-> FALSE,
              resp |-> Response(400, [error |-> "device_id path parameter is required"],
                                request_id)]
        ELSE IF "limit" \in DOMAIN qp /\ ~IsIntLiteral(qp.limit)
        THEN [queried |-> FALSE, resp |-> Raised("ValueError")]
        ELSE LET limit == IF "limit" \in DOMAIN qp THEN ParseInt(qp.limit)
                          ELSE DefaultLimit
             IN  IF limit < 1 /\ fault = "none"
                 THEN [queried |-> FALSE, fault |-> fault,
                       resp |-> Raised("ParamValidationError")]
                 ELSE IF fault # "none"
                 THEN [queried |-> limit >= 1, fault |-> fault,
                       resp |-> Response(500, [error |-> "Failed to retrieve events"],
                                         request_id)]
                 ELSE LET result == TableQuery(st, PK(device_id), qp, limit)
                          items == [n \in 1..Len(result.Items) |-> Row(result.Items[n])]
                      IN  [queried |-> TRUE, fault |-> fault,
                           resp |-> Response(200,
                                        [device_id |-> device_id,
                                         count |-> Len(items),
                                         events |-> items,
                                         last_evaluated_key |-> result.LastEvaluatedKey],
                                        request_id)]

(***************************************************************************)
(* Requests handled one after the other, each in one step.                 *)
(***************************************************************************)
\* ingest_event from start to end.
IngestEventRun(event, request_id, now, st, q, sfault, qfault) ==
    LET parsed == ParseBody(event)
    IN  IF parsed.kind # "ok"
        THEN [store |-> st, queue |-> q, outcome |-> "Rejected", sends |-> 0,
              resp |-> RejectedResponse(parsed, request_id)]
        ELSE LET item == Item(parsed.payload, request_id, now)
                 result == PutItemResult(st, item, sfault)
                 st2 == PutItemStore(st, item, result)
             IN  IF result = "ConditionalCheckFailedException"
                 THEN [store |-> st2, queue |-> q, outcome |-> "Duplicate", sends |-> 0,
                       storeFault |-> sfault,
                       resp |-> DuplicateResponse(request_id)]
                 ELSE IF result # "ok"
                 THEN [store |-> st2, queue |-> q, outcome |-> "StoreFailure", sends |-> 0,
                       storeFault |-> sfault,
                       resp |-> StoreFailureResponse(request_id)]
                 ELSE IF qfault # "none"
                 THEN [store |-> st2, queue |-> q, outcome |-> "PublishFailure",
                       sends |-> 1, storeFault |-> sfault, queueFault |-> qfault,
                       resp |-> PublishFailureResponse(request_id)]
                 ELSE [store |-> st2,
                       queue |-> Append(q, SqsMsg(parsed.payload, request_id)),
                       outcome |-> "Enqueued",
                       sends |-> 1, storeFault |-> sfault, queueFault |-> qfault,
                       resp |-> EnqueuedResponse(parsed.payload, request_id)]

IngestEvent(event, sfault, qfault) ==
    /\ clock < MaxSeqRequests
    /\ LET run == IngestEventRun(event, clock + 1, clock + 1, store, queue, sfault, qfault)
       IN  /\ store' = run.store
           /\ queue' = run.queue
           /\ last' = [op |-> "ingest", event |-> event, rid |-> clock + 1]
                           @@ [k \in DOMAIN run \ {"store", "queue"} |-> run[k]]
    /\ clock' = clock + 1
    /\ UNCHANGED procs

GetDeviceEvents(event, fault) ==
    /\ clock < MaxSeqRequests
    /\ last' = [op |-> "query", event |-> event, rid |-> clock + 1]
                   @@ GetDeviceEventsRun(event, clock + 1, store, fault)
    /\ clock' = clock + 1
    /\ UNCHANGED <<store, queue, procs>>

NextSeq ==
    \/ \E event \in IngestEvents, sfault \in Faults, qfault \in Faults :
           IngestEvent(event, sfault, qfault)
    \/ \E event \in QueryEvents, fault \in Faults : GetDeviceEvents(event, fault)

SpecSeq == Init /\ [][NextSeq]_vars

(***************************************************************************)
(* Properties of the concurrent ingest pipeline (Spec).                    *)
(***************************************************************************)
\* The worker's request passed validation.
HasItem(p) == "item" \in DOMAIN procs[p]

\* The (device_id, ts) of the worker's event.
PairOf(p) == <<procs[p].item.device_id, procs[p].item.ts>>

\* The worker's put_item has returned.
HasPut(p) == "insert" \in DOMAIN procs[p]

\* No call the worker made faulted.
NoFault(p) ==
    /\ "storeFault" \in DOMAIN procs[p] => procs[p].storeFault = "none"
    /\ "queueFault" \in DOMAIN procs[p] => procs[p].queueFault = "none"

\* The stored records of a (device_id, ts).
RecordsOf(pair) == {i \in store : <<i.device_id, i.ts>> = pair}

\* Every other request for the worker's pair was received after the
\* worker's request was answered.
IsFirstForPair(p) ==
    \A r \in Workers \ {p} :
        (HasItem(r) /\ PairOf(r) = PairOf(p)) => p \in procs[r].after

\* q's request repeats p's: same pair, received after p's was answered, p's
\* being the first for the pair, and neither met a fault.
Repeats(p, q) ==
    /\ p \in Done /\ q \in Done
    /\ HasItem(p) /\ HasItem(q)
    /\ PairOf(p) = PairOf(q)
    /\ p \in procs[q].after
    /\ IsFirstForPair(p)
    /\ NoFault(p) /\ NoFault(q)

\* C1: the store holds at most one record per (device_id, ts), whatever the
\* requests and faults were; and when a valid (device_id, ts) is ingested
\* twice, one request after the other and without faults, the first is
\* answered 201, the second 409, and exactly one record is stored.
C1_Idempotent ==
    /\ \A i, j \in store : (i.device_id = j.device_id /\ i.ts = j.ts) => i = j
    /\ \A p, q \in Workers :
           Repeats(p, q) =>
               /\ procs[p].resp.statusCode = 201
               /\ procs[q].resp.statusCode = 409
               /\ Cardinality(RecordsOf(PairOf(p))) = 1

\* A pair was ingested twice, with a different type and value the second
\* time.
C1_Witness ==
    \E p, q \in Workers :
        /\ Repeats(p, q)
        /\ procs[p].item.type # procs[q].item.type
        /\ procs[q].resp.statusCode = 409

\* The workers whose put_item for the pair has returned without a fault.
Racers(pair) ==
    {p \in Workers :
        HasItem(p) /\ PairOf(p) = pair /\ HasPut(p) /\ procs[p].storeFault = "none"}

\* C2: among the requests for one (device_id, ts) whose conditional put has
\* returned without a store fault, in any interleaving, exactly one was
\* Accepted and every other one was a Duplicate (answered 409).
C2_OneAccepted ==
    \A p \in Workers :
        (HasItem(p) /\ HasPut(p) /\ procs[p].storeFault = "none") =>
            LET R == Racers(PairOf(p))
            IN  /\ Cardinality({r \in R : procs[r].insert = "Accepted"}) = 1
                /\ \A r \in R :
                       procs[r].insert # "Accepted" =>
                           /\ procs[r].insert = "Duplicate"
                           /\ procs[r].resp.statusCode = 409

\* Two requests for one pair that overlapped in time (neither was answered
\* before the other was received) have both done their put.
C2_Witness ==
    \E p, q \in Workers :
        /\ p # q
        /\ HasItem(p) /\ HasItem(q) /\ PairOf(p) = PairOf(q)
        /\ p \in Racers(PairOf(p)) /\ q \in Racers(PairOf(p))
        /\ p \notin procs[q].after /\ q \notin procs[p].after
        /\ procs[p].insert = "Accepted" /\ procs[q].insert = "Duplicate"

\* C3: every message sent to the queue has a record for its (device_id, ts)
\* in the store, and a worker that has called send_message has had its own
\* put_item accepted and its item is stored.
C3_WriteThenPublish ==
    /\ \A n \in 1..Len(queue) : RecordsOf(<<queue[n].device_id, queue[n].ts>>) # {}
    /\ \A p \in Workers :
           (procs[p].pc # "idle" /\ procs[p].sends > 0) =>
               /\ HasPut(p) /\ procs[p].insert = "Accepted"
               /\ procs[p].item \in store

\* A message is in the queue while another request is between its put and
\* its publish.
C3_Witness ==
    /\ Len(queue) > 0
    /\ \E p \in Workers : procs[p].pc = "stored"

\* C4: a request calls send_message at most once, only after its own insert
\* was Accepted, and a request that was answered has called it exactly once
\* if its insert was Accepted and never otherwise (Rejected, Duplicate,
\* StoreFailure).
C4_PublishIffAccepted ==
    \A p \in Workers :
        procs[p].pc # "idle" =>
            /\ procs[p].sends <= 1
            /\ procs[p].sends = 1 => (HasPut(p) /\ procs[p].insert = "Accepted")
            /\ procs[p].pc = "done" =>
                   (procs[p].sends = 1 <=> (HasPut(p) /\ procs[p].insert = "Accepted"))
            /\ (procs[p].pc = "done"
                    /\ procs[p].outcome \in {"Rejected", "Duplicate", "StoreFailure"}) =>
                   procs[p].sends = 0

\* One answered request was accepted and published, another was a duplicate
\* and did not publish.
C4_Witness ==
    \E p, q \in Done :
        /\ HasPut(p) /\ procs[p].insert = "Accepted" /\ procs[p].sends = 1
        /\ HasPut(q) /\ procs[q].insert = "Duplicate" /\ procs[q].sends = 0

\* The status code of each terminal outcome.
StatusOf(outcome) ==
    IF outcome = "Rejected" THEN 400
    ELSE IF outcome = "Duplicate" THEN 409
    ELSE IF outcome = "Enqueued" THEN 201
    ELSE 500

\* C7: every answered ingest request has one terminal outcome and a
\* response whose status code is the outcome's (Rejected 400, Duplicate
\* 409, StoreFailure and PublishFailure 500, Enqueued 201), and 201 goes
\* only to a request that stored its event and whose message the queue
\* holds.
C7_OutcomeDeterminesStatus ==
    \A p \in Done :
        /\ procs[p].outcome \in
               {"Rejected", "Duplicate", "StoreFailure", "PublishFailure", "Enqueued"}
        /\ IsResponse(procs[p].resp)
        /\ procs[p].resp.statusCode = StatusOf(procs[p].outcome)
        /\ procs[p].resp.statusCode = 201 =>
               /\ procs[p].item \in store
               /\ \E n \in 1..Len(queue) : queue[n].request_id = procs[p].rid

\* C8: every response of ingest_event carries the request's request_id in
\* its body.
C8_ResponseCarriesRequestId ==
    \A p \in Done :
        IsResponse(procs[p].resp) =>
            /\ "request_id" \in DOMAIN procs[p].resp.body
            /\ procs[p].resp.body.request_id = procs[p].rid

\* C9: every ingest request ends with a structured response, never with an
\* exception that leaves the handler.
C9_NoUnhandledFault ==
    \A p \in Done : IsResponse(procs[p].resp)

(***************************************************************************)
(* Properties of the range query (SpecSeq).                                *)
(***************************************************************************)
\* The last request was a query answered 200.
QueryAnswered ==
    /\ last.op = "query"
    /\ IsResponse(last.resp)
    /\ last.resp.statusCode = 200

\* The string is the decimal form of a positive integer.
IsPositiveInt(s) == IsIntLiteral(s) /\ ParseInt(s) > 0

\* The ts values of the events a query returned, in the order returned.
ReturnedTs == [n \in 1..Len(last.resp.body.events) |-> last.resp.body.events[n].ts]

\* C5: the events a query returns are in strictly descending numeric ts
\* order.
C5_DescendingTs ==
    QueryAnswered =>
        \A m, n \in 1..Len(ReturnedTs) : m < n => ReturnedTs[m] > ReturnedTs[n]

\* The events of a device that a query with these bounds is to select, by
\* numeric comparison on ts.
NumericSelection(device_id, qp) ==
    {i \in store :
        /\ i.device_id = device_id
        /\ "from_ts" \in DOMAIN qp => i.ts >= ParseInt(qp.from_ts)
        /\ "to_ts" \in DOMAIN qp => i.ts <= ParseInt(qp.to_ts)}

\* The limit of a query whose limit parameter, if any, is an integer.
LimitOf(qp) == IF "limit" \in DOMAIN qp THEN ParseInt(qp.limit) ELSE DefaultLimit

\* C6: a query whose bounds are positive integers and whose device has
\* fewer stored events than the limit returns exactly the device's events
\* selected by numeric comparison on ts.
C6_RangeSelection ==
    LET qp == last.event.queryStringParameters
        device_id == last.resp.body.device_id
    IN  (/\ QueryAnswered
         /\ \A k \in DOMAIN qp \cap {"from_ts", "to_ts"} : IsPositiveInt(qp[k])
         /\ Cardinality({i \in store : i.device_id = device_id}) < LimitOf(qp)) =>
            {last.resp.body.events[n] : n \in 1..Len(last.resp.body.events)}
                = NumericSelection(device_id, qp)

\* C10: a query in which a supplied from_ts, to_ts or limit is not a
\* positive integer is answered 400 and does not read the table.
C10_ParametersValidated ==
    (/\ last.op = "query"
     /\ \E k \in DOMAIN last.event.queryStringParameters :
            ~IsPositiveInt(last.event.queryStringParameters[k])) =>
        /\ IsResponse(last.resp)
        /\ last.resp.statusCode = 400
        /\ ~last.queried

\* The queue holds a message for the (device_id, ts).
Published(pair) == \E n \in 1..Len(queue) : <<queue[n].device_id, queue[n].ts>> = pair

\* C11: no accepted event's message is lost: when a request stored its
\* event and was answered 500 because the publish failed, and the caller
\* then retried the same request and the retry met no fault (the queue
\* accepts), a message for the event has been published once the retry is
\* answered.
C11_AtLeastOnce ==
    \A p, q \in Done :
        (/\ HasItem(p) /\ HasItem(q)
         /\ procs[p].outcome = "PublishFailure"
         /\ procs[q].event = procs[p].event
         /\ p \in procs[q].after
         /\ NoFault(q)) =>
            Published(PairOf(p))

(***************************************************************************)
(* Properties of requests handled one after the other (SpecSeq).           *)
(***************************************************************************)
\* The step handles a get_device_events request.
QueryStep == clock' = clock + 1 /\ last'.op = "query"

\* A step keeps every stored record as it is, adds no second record for a
\* stored (device_id, ts), and, if it is a query, changes neither the store
\* nor the queue.
CreateOnceStep ==
    /\ \A i \in store :
           /\ i \in store'
           /\ \A j \in store' : (j.device_id = i.device_id /\ j.ts = i.ts) => j = i
    /\ QueryStep => (store' = store /\ queue' = queue)

\* C12: stored events are create-once: over any sequence of ingest and
\* query requests the set of stored records only grows, the attributes of a
\* stored record never change (a duplicate ingest with another type and
\* value leaves the first record as it was), and a query changes neither
\* the store nor the queue.
C12_CreateOnce == [][CreateOnceStep]_vars

\* A duplicate ingest whose type differs from the stored record's was just
\* answered.
C12_Witness ==
    /\ last.op = "ingest"
    /\ last.outcome = "Duplicate"
    /\ \E i \in store :
           /\ i.device_id = last.event.data.device_id
           /\ i.ts = last.event.data.ts
           /\ i.type # last.event.data.type
           /\ i.value # last.event.data.value

(***************************************************************************)
(* More properties of the concurrent ingest pipeline (Spec).               *)
(***************************************************************************)
\* The worker's request has a JSON object body.
HasData(p) == procs[p].pc # "idle" /\ procs[p].event.body = "object"

\* The body's device_id, type and value are what a valid request has.
OtherFieldsValid(data) ==
    /\ "device_id" \in DOMAIN data /\ data.device_id \in DeviceIds \cup {DSp}
    /\ "type" \in DOMAIN data /\ data.type \in {TypeT, TypeX}
    /\ "value" \in DOMAIN data

\* Nothing in the store or in the queue comes from the worker's request.
LeftNoTrace(p) ==
    /\ \A i \in store : i.request_id # procs[p].rid
    /\ \A n \in 1..Len(queue) : queue[n].request_id # procs[p].rid

\* No other worker's put for the worker's pair was accepted.
PairWasFree(p) ==
    \A r \in Workers \ {p} :
        (HasItem(r) /\ PairOf(r) = PairOf(p) /\ HasPut(r)) =>
            procs[r].insert # "Accepted"

\* C13: a request with ts <= 0 is answered 400 and nothing of it reaches
\* the store or the queue; an otherwise valid request with ts = 1, for a
\* pair not stored yet and with no fault, is answered 201 with its item
\* stored and its message published.
C13_TsBoundary ==
    \A p \in Workers :
        (HasData(p) /\ "ts" \in DOMAIN procs[p].event.data) =>
            LET data == procs[p].event.data
            IN  /\ data.ts <= 0 =>
                       /\ procs[p].pc = "done"
                       /\ IsResponse(procs[p].resp)
                       /\ procs[p].resp.statusCode = 400
                       /\ ~HasItem(p)
                       /\ procs[p].sends = 0
                       /\ LeftNoTrace(p)
                /\ (data.ts = 1 /\ OtherFieldsValid(data)) =>
                       /\ HasItem(p)
                       /\ (procs[p].pc = "done" /\ NoFault(p) /\ PairWasFree(p)) =>
                              /\ procs[p].resp.statusCode = 201
                              /\ procs[p].item \in store
                              /\ \E n \in 1..Len(queue) :
                                     queue[n].request_id = procs[p].rid

\* One request with ts = 0 was answered 400 and one with ts = 1 was
\* answered 201.
C13_Witness ==
    \E p, q \in Done :
        /\ HasData(p) /\ "ts" \in DOMAIN procs[p].event.data
        /\ procs[p].event.data.ts = 0
        /\ OtherFieldsValid(procs[p].event.data)
        /\ procs[p].resp.statusCode = 400
        /\ HasItem(q) /\ procs[q].item.ts = 1
        /\ procs[q].resp.statusCode = 201

\* A string field is missing, or blank once its whitespace is trimmed.
MissingOrBlank(data, f) ==
    f \notin DOMAIN data \/ \A n \in 1..Len(data[f]) : data[f][n] = " "

\* The fields of a body that break a rule of the event contract: device_id
\* and type required and not blank, value required, ts required and
\* strictly positive.
BrokenFields(data) ==
    {f \in {"device_id", "type"} : MissingOrBlank(data, f)}
        \cup {f \in {"value"} : f \notin DOMAIN data}
        \cup {f \in {"ts"} : f \notin DOMAIN data \/ data[f] <= 0}

StoredTs(device_id) == {i.ts : i \in {j \in store : j.device_id = device_id}}

\* C15: a query without from_ts and to_ts returns at most limit events
\* (100 when no limit is given), and when the device has more than limit
\* events it returns exactly limit of them, those with the greatest numeric
\* ts, newest first.
C15_LimitNewest ==
    LET qp == last.event.queryStringParameters
        all == StoredTs(last.resp.body.device_id)
        got == {ReturnedTs[n] : n \in 1..Len(ReturnedTs)}
    IN  (QueryAnswered /\ DOMAIN qp \subseteq {"limit"}) =>
            /\ Len(ReturnedTs) <= LimitOf(qp)
            /\ last.resp.body.count <= LimitOf(qp)
            /\ Cardinality(all) > LimitOf(qp) =>
                   /\ Len(ReturnedTs) = LimitOf(qp)
                   /\ got \subseteq all
                   /\ \A t \in got, u \in all \ got : t > u
                   /\ \A m, n \in 1..Len(ReturnedTs) :
                          m < n => ReturnedTs[m] > ReturnedTs[n]

\* The device id the handler queries for: the path parameter, stripped
\* (line 219), or the empty string when there is none.
QueriedDevice ==
    IF "device_id" \in DOMAIN last.event.pathParameters
    THEN Strip(last.event.pathParameters.device_id)
    ELSE <<>>

\* The query names a device, its limit (if any) is a positive integer and
\* the table does not fault.
QueryWellFormed ==
    /\ last.op = "query"
    /\ QueriedDevice # <<>>
    /\ "limit" \in DOMAIN last.event.queryStringParameters =>
           IsPositiveInt(last.event.queryStringParameters.limit)
    /\ last.fault = "none"

\* C16: a query for device d (the device id the handler builds its
\* partition key from) is answered 200 when it is well formed; the events
\* it returns are stored events whose device_id is d, count is their
\* number, and when nothing is stored for d the answer is count 0 and an
\* empty list, whatever is stored for other devices.
C16_PartitionIsolation ==
    /\ QueryWellFormed => QueryAnswered
    /\ QueryAnswered =>
           LET body == last.resp.body
           IN  /\ body.device_id = QueriedDevice
               /\ \A n \in 1..Len(body.events) :
                      /\ body.events[n] \in store
                      /\ body.events[n].device_id = QueriedDevice
               /\ body.count = Len(body.events)
               /\ StoredTs(QueriedDevice) = {} =>
                      (body.count = 0 /\ body.events = <<>>)

\* A query for a device with nothing stored was answered with count 0 while
\* two events of other devices are stored.
C16_Witness ==
    /\ QueryAnswered
    /\ last.resp.body.count = 0
    /\ StoredTs(QueriedDevice) = {}
    /\ Cardinality(store) = 2

\* q's request is for p's (device_id, ts), was received after p's was
\* answered, and its put_item has returned.
LaterSamePair(p, q) ==
    /\ q \in Done /\ HasItem(q) /\ HasPut(q)
    /\ PairOf(q) = PairOf(p)
    /\ p \in procs[q].after

\* C17: a request whose put_item succeeded and whose send_message failed
\* is answered 500, its event stays stored and the queue holds no message
\* for it; every later request for the same (device_id, ts) that reaches
\* the conditional write publishes nothing, and is answered 409 unless the
\* table itself faults on it.
C17_PublishFailureStands ==
    \A p \in Done :
        (HasItem(p) /\ procs[p].outcome = "PublishFailure") =>
            /\ procs[p].insert = "Accepted"
            /\ procs[p].resp.statusCode = 500
            /\ RecordsOf(PairOf(p)) # {}
            /\ \A i \in RecordsOf(PairOf(p)) : i.request_id = procs[p].rid
            /\ ~Published(PairOf(p))
            /\ \A q \in Workers :
                   LaterSamePair(p, q) =>
                       /\ procs[q].sends = 0
                       /\ procs[q].storeFault = "none" =>
                              /\ procs[q].outcome = "Duplicate"
                              /\ procs[q].resp.statusCode = 409

\* A request stored its event and failed to publish; a later request for
\* the same pair met no fault and was answered 409.
C17_Witness ==
    \E p, q \in Done :
        /\ HasItem(p) /\ procs[p].outcome = "PublishFailure"
        /\ LaterSamePair(p, q)
        /\ procs[q].storeFault = "none"
        /\ procs[q].resp.statusCode = 409
        /\ ~Published(PairOf(p))

\* The worker's request passed validation and its message can be built.
HasPayload(p) == "payload" \in DOMAIN procs[p]

\* The event_id of the message the worker's request publishes.
EventIdOf(p) == SqsMsg(procs[p].payload, procs[p].rid).event_id

\* C18: the event_id of every published message is the partition key and
\* the sort key of the stored record of its (device_id, ts) joined by ":";
\* two published messages have the same event_id exactly when they have the
\* same (device_id, ts); and the event_id a request's message gets depends
\* on (device_id, ts) only: two requests get the same event_id exactly when
\* their (device_id, ts) are the same, whatever their type, value and
\* request_id.
C18_EventIdOfKey ==
    /\ \A n \in 1..Len(queue) :
           /\ RecordsOf(<<queue[n].device_id, queue[n].ts>>) # {}
           /\ \A i \in RecordsOf(<<queue[n].device_id, queue[n].ts>>) :
                  queue[n].event_id = i.PK \o <<":">> \o i.SK
    /\ \A m, n \in 1..Len(queue) :
           (queue[m].event_id = queue[n].event_id)
               <=> (<<queue[m].device_id, queue[m].ts>> = <<queue[n].device_id, queue[n].ts>>)
    /\ \A p, q \in Workers :
           (HasPayload(p) /\ HasPayload(q)) =>
               ((EventIdOf(p) = EventIdOf(q)) <=> (PairOf(p) = PairOf(q)))

\* The queue holds the messages of two events of one device, and their
\* event_ids differ.
C18_Witness ==
    /\ Len(queue) = 2
    /\ queue[1].device_id = queue[2].device_id
    /\ queue[1].ts # queue[2].ts
    /\ queue[1].request_id # queue[2].request_id
    /\ queue[1].event_id # queue[2].event_id

\* The positions of the queue that hold a message for the (device_id, ts).
MessagesOf(pair) ==
    {n \in 1..Len(queue) : <<queue[n].device_id, queue[n].ts>> = pair}

\* C19: in every interleaving of the requests and with any faults of the
\* table and of the queue, the queue holds at most one message for a
\* (device_id, ts), and at most one request for the pair has called
\* send_message.
C19_AtMostOneMessage ==
    /\ \A n \in 1..Len(queue) :
           Cardinality(MessagesOf(<<queue[n].device_id, queue[n].ts>>)) = 1
    /\ \A p, q \in Workers :
           (/\ HasItem(p) /\ HasItem(q)
            /\ PairOf(p) = PairOf(q)
            /\ procs[p].sends > 0 /\ procs[q].sends > 0) => p = q

\* Two requests for one pair overlapped, both were answered, and the queue
\* holds one message for the pair.
C19_Witness ==
    \E p, q \in Done :
        /\ p # q
        /\ HasItem(p) /\ HasItem(q) /\ PairOf(p) = PairOf(q)
        /\ p \notin procs[q].after /\ q \notin procs[p].after
        /\ Cardinality(MessagesOf(PairOf(p))) = 1

\* The stored events whose device_id is the string.
StoredFor(device_id) == {i \in store : i.device_id = device_id}

\* C20: every accepted event can be read back: a query without from_ts and
\* to_ts whose path parameter is the device_id of stored events, character
\* for character, and whose limit is above their number, meets no fault
\* and is answered 200 with every one of those events.
C20_AcceptedIsRetrievable ==
    LET qp == last.event.queryStringParameters
        path == last.event.pathParameters
    IN  (/\ last.op = "query"
         /\ "device_id" \in DOMAIN path
         /\ StoredFor(path.device_id) # {}
         /\ DOMAIN qp \subseteq {"limit"}
         /\ "limit" \in DOMAIN qp => IsPositiveInt(qp.limit)
         /\ LimitOf(qp) > Cardinality(StoredFor(path.device_id))
         /\ last.fault = "none") =>
            /\ QueryAnswered
            /\ \A i \in StoredFor(path.device_id) :
                   \E n \in 1..Len(last.resp.body.events) :
                       last.resp.body.events[n] = Row(i)

====
